---- MODULE Spec2Model ----
(***************************************************************************)
(* The ERA-5 record update scripts as a state machine.                     *)
(*                                                                         *)
(*   append_era5.py            region loop: find the record and addition   *)
(*                             files, append_era5_to_record, rename,       *)
(*                             remove.                                     *)
(*   update_era5_workflow.py   RAPID for every region, then for every      *)
(*                             region append (imports_era5_workflow's      *)
(*                             append_era5_to_record) or copy, then write  *)
(*                             last_date_prev_sim.txt.                     *)
(*                                                                         *)
(* A numpy array is [shape |-> <<rows, cols>>, data |-> rows of cells]; the *)
(* shape is kept beside the data because a slice may leave zero rows of a  *)
(* known width.  A cell of Qout is <<file, time step, reach>>: every cell  *)
(* is distinct, so a dropped, moved or transposed slice always shows.      *)
(***************************************************************************)
EXTENDS Integers, Sequences, FiniteSets, TLC

\* Bounds of the model.
MaxLen == 2
MaxTime == 3
MaxReach == 2
NumRegions == 2

VARIABLES
    script,                 \* which script's main process runs
    pc,                     \* position of the main process
    error,                  \* the uncaught exception that ended the run, if any
    region,                 \* index of the loop's current region
    log,                    \* per region, the outcome line printed for it
    fs,                     \* per region, what is known of its files on disk
    last_date,              \* content of last_date_prev_sim.txt
    time_record_array,      \* locals of append_era5_to_record
    time_addition_array,
    flow_record_array,
    flow_addition_array,
    time_new_total_array,
    flow_new_total_array,
    record_dims,            \* dimension order of Qout in the record file
    addition_dims,          \* dimension order of Qout in the addition file
    nc_time,                \* record_netcdf.variables['time'] on disk
    nc_Qout                 \* record_netcdf.variables['Qout'] on disk

vars == <<script, pc, error, region, log, fs, last_date, time_record_array,
          time_addition_array, flow_record_array, flow_addition_array,
          time_new_total_array, flow_new_total_array, record_dims,
          addition_dims, nc_time, nc_Qout>>

locals == <<time_record_array, time_addition_array, flow_record_array,
            flow_addition_array, time_new_total_array, flow_new_total_array,
            record_dims, addition_dims, nc_time, nc_Qout>>

Scripts == {"append_era5", "update_era5_workflow"}

Regions == 1..NumRegions

Dims == {"time_rivid", "rivid_time"}

-----------------------------------------------------------------------------
(* numpy *)

Range(s) == {s[i] : i \in 1..Len(s)}

Max0(n) == IF n < 0 THEN 0 ELSE n

NoArray == [shape |-> <<0, 0>>, data |-> <<>>]

NRows(a) == a.shape[1]

NCols(a) == a.shape[2]

\* np.size(a, 0)
np_size0(a) == NRows(a)

\* a[k:]  on a 1-D array
slice_from(s, k) == IF k >= Len(s) THEN <<>> ELSE SubSeq(s, k + 1, Len(s))

\* a[k:, :]
slice_rows(a, k) ==
    [shape |-> <<Max0(NRows(a) - k), NCols(a)>>, data |-> slice_from(a.data, k)]

\* a[:, k:]
slice_cols(a, k) ==
    [shape |-> <<NRows(a), Max0(NCols(a) - k)>>,
     data |-> [i \in 1..NRows(a) |-> slice_from(a.data[i], k)]]

\* np.transpose(a)
np_transpose(a) ==
    [shape |-> <<NCols(a), NRows(a)>>,
     data |-> [j \in 1..NCols(a) |-> [i \in 1..NRows(a) |-> a.data[i][j]]]]

\* np.append(a, b, axis) on 2-D arrays: every dimension but `axis` must match,
\* or numpy raises ValueError.
np_append_raises(a, b, axis) ==
    IF axis = 0 THEN NCols(a) # NCols(b) ELSE NRows(a) # NRows(b)

np_append(a, b, axis) ==
    IF axis = 0
    THEN [shape |-> <<NRows(a) + NRows(b), NCols(a)>>, data |-> a.data \o b.data]
    ELSE [shape |-> <<NRows(a), NCols(a) + NCols(b)>>,
          data |-> [i \in 1..NRows(a) |-> a.data[i] \o b.data[i]]]

-----------------------------------------------------------------------------
(* The files *)

StrictlyIncreasing(s) == \A i \in 1..(Len(s) - 1) : s[i] < s[i + 1]

TimeVectors == UNION {[1..n -> 1..MaxTime] : n \in 1..MaxLen}

\* Qout of a file holding T time steps of N reaches, stored in order `dims`.
Qout(file, T, N, dims) ==
    IF dims = "time_rivid"
    THEN [shape |-> <<T, N>>,
          data |-> [t \in 1..T |-> [n \in 1..N |-> <<file, t, n>>]]]
    ELSE [shape |-> <<N, T>>,
          data |-> [n \in 1..N |-> [t \in 1..T |-> <<file, t, n>>]]]

Dataset(file, time, N, dims) ==
    [time |-> time, Qout |-> Qout(file, Len(time), N, dims), dims |-> dims]

\* A record's time is strictly increasing; an addition's is whatever the
\* simulation wrote.
RecordDatasets ==
    {Dataset("record", t, N, d) :
        t \in {s \in TimeVectors : StrictlyIncreasing(s)},
        N \in 1..MaxReach, d \in Dims}

AdditionDatasets ==
    {Dataset("addition", t, N, d) : t \in TimeVectors, N \in 1..MaxReach, d \in Dims}

-----------------------------------------------------------------------------
(* append_era5_to_record, append_era5.py *)

record_flow_rows_are_time(flow_record, time_record) ==
    np_size0(flow_record) = Len(time_record)

addition_flow_rows_are_time(flow_addition, time_addition) ==
    np_size0(flow_addition) = Len(time_addition)

\* Mutant: only the record's last time step is looked for in the addition.
time_duplicates_count_last_only(time_record, time_addition) ==
    IF time_record[Len(time_record)] \in Range(time_addition) THEN 1 ELSE 0

time_duplicates_count(time_record, time_addition) ==
    Cardinality(Range(time_record) \cap Range(time_addition))

time_addition_array_keep(time_addition, count) == slice_from(time_addition, count)

flow_addition_array_keep(flow_addition, time_addition, count) ==
    IF addition_flow_rows_are_time(flow_addition, time_addition)
    THEN slice_rows(flow_addition, count)
    ELSE slice_cols(flow_addition, count)

time_new_total(time_record, time_addition) ==
    time_record \o time_addition_array_keep(time_addition,
                       time_duplicates_count(time_record, time_addition))

\* Mutant: the addition is always cut and appended by rows, whatever the
\* orientation of either array.
flow_append_args_rows_only(time_record, flow_record, time_addition, flow_addition) ==
    [a |-> flow_record,
     b |-> slice_rows(flow_addition, time_duplicates_count(time_record, time_addition)),
     axis |-> 0]

\* The two operands and the axis of the np.append that builds
\* flow_new_total_array.
flow_append_args(time_record, flow_record, time_addition, flow_addition) ==
    LET keep == flow_addition_array_keep(flow_addition, time_addition,
                    time_duplicates_count(time_record, time_addition))
        rec_rows == record_flow_rows_are_time(flow_record, time_record)
        add_rows == addition_flow_rows_are_time(flow_addition, time_addition)
    IN  IF rec_rows /\ add_rows
        THEN [a |-> flow_record, b |-> keep, axis |-> 0]
        ELSE IF rec_rows /\ ~add_rows
        THEN [a |-> flow_record, b |-> np_transpose(keep), axis |-> 0]
        ELSE IF ~rec_rows /\ add_rows
        THEN [a |-> flow_record, b |-> np_transpose(keep), axis |-> 1]
        ELSE [a |-> flow_record, b |-> keep, axis |-> 1]

-----------------------------------------------------------------------------
(* append_era5_to_record, imports_era5_workflow.py *)

imports_flow_append_args(time_record, flow_record, time_addition, flow_addition) ==
    [a |-> flow_record,
     b |-> slice_rows(flow_addition, time_duplicates_count(time_record, time_addition)),
     axis |-> 0]

-----------------------------------------------------------------------------
(* What either append_era5_to_record computes before it writes *)

append_args(s, time_record, flow_record, time_addition, flow_addition) ==
    IF s = "append_era5"
    THEN flow_append_args(time_record, flow_record, time_addition, flow_addition)
    ELSE imports_flow_append_args(time_record, flow_record, time_addition, flow_addition)

Merge(s, time_record, flow_record, time_addition, flow_addition) ==
    LET args == append_args(s, time_record, flow_record, time_addition, flow_addition)
        raises == np_append_raises(args.a, args.b, args.axis)
    IN  [raised |-> raises,
         time |-> time_new_total(time_record, time_addition),
         flow |-> IF raises THEN NoArray ELSE np_append(args.a, args.b, args.axis)]

-----------------------------------------------------------------------------
(* State *)

NoFiles == [record |-> "unlisted", addition |-> "unlisted", m3 |-> "unlisted",
            written |-> {}]

Init ==
    /\ script \in Scripts
    /\ pc = IF script = "append_era5" THEN "find_record" ELSE "simulate"
    /\ error = ""
    /\ region = 1
    /\ log = [r \in Regions |-> ""]
    /\ fs = [r \in Regions |-> NoFiles]
    /\ last_date = "previous"
    /\ time_record_array = <<>>
    /\ time_addition_array = <<>>
    /\ flow_record_array = NoArray
    /\ flow_addition_array = NoArray
    /\ time_new_total_array = <<>>
    /\ flow_new_total_array = NoArray
    /\ record_dims = ""
    /\ addition_dims = ""
    /\ nc_time = <<>>
    /\ nc_Qout = NoArray

-----------------------------------------------------------------------------
(* Steps shared by the two main processes *)

\* An uncaught exception ends the script where it is.
Raise(e) ==
    /\ pc' = "raised"
    /\ error' = e
    /\ UNCHANGED <<region, log>>

\* append_era5_to_record opens both files and reads time and Qout of each.
OpenAndRead ==
    /\ pc = "open"
    /\ \E rec \in RecordDatasets, add \in AdditionDatasets :
        /\ time_record_array' = rec.time
        /\ flow_record_array' = rec.Qout
        /\ record_dims' = rec.dims
        /\ time_addition_array' = add.time
        /\ flow_addition_array' = add.Qout
        /\ addition_dims' = add.dims
        /\ nc_time' = rec.time
        /\ nc_Qout' = rec.Qout
    /\ pc' = "compute"
    /\ UNCHANGED <<script, error, region, log, fs, last_date,
                   time_new_total_array, flow_new_total_array>>

\* Everything append_era5_to_record computes in memory; np.append raises
\* ValueError on arrays that do not fit.
Compute ==
    /\ pc = "compute"
    /\ LET m == Merge(script, time_record_array, flow_record_array,
                      time_addition_array, flow_addition_array)
       IN  /\ time_new_total_array' = m.time
           /\ flow_new_total_array' = m.flow
           /\ IF m.raised
              THEN Raise("ValueError")
              ELSE /\ pc' = IF script = "append_era5" THEN "write_time" ELSE "write_Qout"
                   /\ UNCHANGED <<error, region, log>>
    /\ UNCHANGED <<script, fs, last_date, time_record_array, time_addition_array,
                   flow_record_array, flow_addition_array, record_dims,
                   addition_dims, nc_time, nc_Qout>>

\* record_netcdf.variables['time'][:] = time_new_total_array
WriteTime ==
    /\ pc = "write_time"
    /\ nc_time' = time_new_total_array
    /\ fs' = [fs EXCEPT ![region].written = @ \cup {"time"}]
    /\ pc' = IF script = "append_era5" THEN "write_Qout" ELSE "return"
    /\ UNCHANGED <<script, error, region, log, last_date, time_record_array,
                   time_addition_array, flow_record_array, flow_addition_array,
                   time_new_total_array, flow_new_total_array, record_dims,
                   addition_dims, nc_Qout>>

\* record_netcdf.variables['Qout'][:] = flow_new_total_array
WriteQout ==
    /\ pc = "write_Qout"
    /\ nc_Qout' = flow_new_total_array
    /\ fs' = [fs EXCEPT ![region].written = @ \cup {"Qout"}]
    /\ pc' = IF script = "append_era5" THEN "return" ELSE "write_time"
    /\ UNCHANGED <<script, error, region, log, last_date, time_record_array,
                   time_addition_array, flow_record_array, flow_addition_array,
                   time_new_total_array, flow_new_total_array, record_dims,
                   addition_dims, nc_time>>

ClearLocals ==
    /\ time_record_array' = <<>>
    /\ time_addition_array' = <<>>
    /\ flow_record_array' = NoArray
    /\ flow_addition_array' = NoArray
    /\ time_new_total_array' = <<>>
    /\ flow_new_total_array' = NoArray
    /\ record_dims' = ""
    /\ addition_dims' = ""
    /\ nc_time' = <<>>
    /\ nc_Qout' = NoArray

\* append_era5_to_record returns to its caller; its locals are gone.
Return ==
    /\ pc = "return"
    /\ ClearLocals
    /\ IF script = "append_era5"
       THEN /\ pc' = "rename"
            /\ UNCHANGED <<region, log>>
       ELSE /\ pc' = "find_qout"
            /\ log' = [log EXCEPT ![region] = "appended"]
            /\ region' = region + 1
    /\ UNCHANGED <<script, error, fs, last_date>>

-----------------------------------------------------------------------------
(* append_era5.py, main process *)

\* Mutant: a missing file ends the run instead of the iteration.
Skip_ends_run(msg) ==
    /\ log' = [log EXCEPT ![region] = msg]
    /\ region' = region
    /\ pc' = "raised"
    /\ error' = msg

\* print('ERROR: Correct ... file not found for ' + region); continue
Skip(msg) ==
    /\ log' = [log EXCEPT ![region] = msg]
    /\ region' = region + 1
    /\ pc' = "find_record"
    /\ error' = error

RecordFound ==
    /\ fs' = [fs EXCEPT ![region].record = "found"]
    /\ pc' = "find_addition"
    /\ UNCHANGED <<error, region, log>>

\* Mutant: the record is renamed before the addition is appended to it.
AdditionFound_rename_first ==
    /\ fs' = [fs EXCEPT ![region].addition = "found", ![region].record = "renamed"]
    /\ pc' = "open"
    /\ UNCHANGED <<error, region, log>>

AdditionFound ==
    /\ fs' = [fs EXCEPT ![region].addition = "found"]
    /\ pc' = "open"
    /\ UNCHANGED <<error, region, log>>

FindRecordFile ==
    /\ script = "append_era5"
    /\ pc = "find_record"
    /\ region <= NumRegions
    /\ \E found \in BOOLEAN :
        IF found
        THEN RecordFound
        ELSE /\ fs' = [fs EXCEPT ![region].record = "absent"]
             /\ Skip("record_not_found")
    /\ UNCHANGED <<script, last_date, locals>>

FindAdditionFile ==
    /\ script = "append_era5"
    /\ pc = "find_addition"
    /\ \E found \in BOOLEAN :
        IF found
        THEN AdditionFound
        ELSE /\ fs' = [fs EXCEPT ![region].addition = "absent"]
             /\ Skip("addition_not_found")
    /\ UNCHANGED <<script, last_date, locals>>

\* os.rename(record_file_path, ...) to the new ending date
RenameRecord ==
    /\ script = "append_era5"
    /\ pc = "rename"
    /\ fs' = [fs EXCEPT ![region].record = "renamed"]
    /\ pc' = "remove"
    /\ UNCHANGED <<script, error, region, log, last_date, locals>>

\* os.remove of the addition and of every m3* file listed beside it
RemoveAddition ==
    /\ script = "append_era5"
    /\ pc = "remove"
    /\ \E m3_listed \in BOOLEAN :
        fs' = [fs EXCEPT ![region].addition = "removed",
                         ![region].m3 = IF m3_listed THEN "removed" ELSE "none"]
    /\ log' = [log EXCEPT ![region] = "appended"]
    /\ region' = region + 1
    /\ pc' = "find_record"
    /\ UNCHANGED <<script, error, last_date, locals>>

\* print('Workflow Finished! ...')
Finish ==
    /\ script = "append_era5"
    /\ pc = "find_record"
    /\ region > NumRegions
    /\ pc' = "finished"
    /\ UNCHANGED <<script, error, region, log, fs, last_date, locals>>

-----------------------------------------------------------------------------
(* update_era5_workflow.py, main process *)

\* run_era5_rapid_simulation(region, ...): raises when the initial flows file
\* is missing or RAPID fails.
RunSimulation ==
    /\ script = "update_era5_workflow"
    /\ pc = "simulate"
    /\ region <= NumRegions
    /\ \E ok \in BOOLEAN :
        IF ok
        THEN /\ region' = region + 1
             /\ UNCHANGED <<pc, error, log>>
        ELSE Raise("simulation failed")
    /\ UNCHANGED <<script, fs, last_date, locals>>

\* The actual end date is read off the first region's output file name.
IdentifyEndDate ==
    /\ script = "update_era5_workflow"
    /\ pc = "simulate"
    /\ region > NumRegions
    /\ \E found \in BOOLEAN :
        IF found
        THEN /\ pc' = "find_qout"
             /\ region' = 1
             /\ UNCHANGED <<error, log>>
        ELSE Raise("Output file not found")
    /\ UNCHANGED <<script, fs, last_date, locals>>

FindQoutFile ==
    /\ script = "update_era5_workflow"
    /\ pc = "find_qout"
    /\ region <= NumRegions
    /\ \E found \in BOOLEAN :
        IF found
        THEN /\ fs' = [fs EXCEPT ![region].addition = "found"]
             /\ pc' = "check_record"
             /\ UNCHANGED <<error, region, log>>
        ELSE /\ fs' = [fs EXCEPT ![region].addition = "absent"]
             /\ Raise("Qout file not found")
    /\ UNCHANGED <<script, last_date, locals>>

\* if os.path.exists(record_file_path): append ... else: shutil.copy(...)
AppendOrCreate ==
    /\ script = "update_era5_workflow"
    /\ pc = "check_record"
    /\ \E exists \in BOOLEAN :
        IF exists
        THEN /\ fs' = [fs EXCEPT ![region].record = "found"]
             /\ pc' = "open"
             /\ UNCHANGED <<region, log>>
        ELSE /\ fs' = [fs EXCEPT ![region].record = "copied"]
             /\ log' = [log EXCEPT ![region] = "created"]
             /\ region' = region + 1
             /\ pc' = "find_qout"
    /\ UNCHANGED <<script, error, last_date, locals>>

\* Mutant: the date is written as soon as it is known, before the records
\* are appended to.
WriteLastDate_before_append ==
    /\ script = "update_era5_workflow"
    /\ pc = "find_qout"
    /\ region > NumRegions \/ last_date = "previous"
    /\ last_date' = "actual"
    /\ pc' = IF region > NumRegions THEN "finish" ELSE pc
    /\ UNCHANGED <<script, error, region, log, fs, locals>>

\* new_text_file.write(actual_sim_end_date_str)
WriteLastDate ==
    /\ script = "update_era5_workflow"
    /\ pc = "find_qout"
    /\ region > NumRegions
    /\ last_date' = "actual"
    /\ pc' = "finish"
    /\ UNCHANGED <<script, error, region, log, fs, locals>>

FinishWorkflow ==
    /\ script = "update_era5_workflow"
    /\ pc = "finish"
    /\ pc' = "finished"
    /\ UNCHANGED <<script, error, region, log, fs, last_date, locals>>

-----------------------------------------------------------------------------

Next ==
    \/ OpenAndRead
    \/ Compute
    \/ WriteTime
    \/ WriteQout
    \/ Return
    \/ FindRecordFile
    \/ FindAdditionFile
    \/ RenameRecord
    \/ RemoveAddition
    \/ Finish
    \/ RunSimulation
    \/ IdentifyEndDate
    \/ FindQoutFile
    \/ AppendOrCreate
    \/ WriteLastDate
    \/ FinishWorkflow

Spec == Init /\ [][Next]_vars

-----------------------------------------------------------------------------
(* What the properties are stated in *)

NoDuplicates(s) == \A i, j \in 1..Len(s) : s[i] = s[j] => i = j

CommonTimes == Range(time_record_array) \cap Range(time_addition_array)

\* The np.append of Qout went through: both new arrays are in memory.
Computed == pc \in {"write_time", "write_Qout", "return"}

\* append_era5_to_record was ended by np.append's ValueError.
MergeRaised == pc = "raised" /\ error = "ValueError"

\* The number of reaches of a Qout array stored in order `dims`.
LocationSize(flow, dims) == IF dims = "time_rivid" THEN NCols(flow) ELSE NRows(flow)

\* The number of time steps of a Qout array stored in order `dims`.
TimeSize(flow, dims) == IF dims = "time_rivid" THEN NRows(flow) ELSE NCols(flow)

\* The values of every reach at time step t.
TimeSlice(flow, dims, t) ==
    IF dims = "time_rivid"
    THEN flow.data[t]
    ELSE [n \in 1..NRows(flow) |-> flow.data[n][t]]

TimeSlices(flow, dims) == [t \in 1..TimeSize(flow, dims) |-> TimeSlice(flow, dims, t)]

\* The array that holds the time slices `slices` of N reaches, in order `dims`.
FromTimeSlices(slices, N, dims) ==
    IF dims = "time_rivid"
    THEN [shape |-> <<Len(slices), N>>, data |-> slices]
    ELSE [shape |-> <<N, Len(slices)>>,
          data |-> [n \in 1..N |-> [t \in 1..Len(slices) |-> slices[t][n]]]]

LocationSizesDiffer ==
    LocationSize(flow_record_array, record_dims)
        # LocationSize(flow_addition_array, addition_dims)

Square(flow) == NRows(flow) = NCols(flow)

Untouched(r) == fs[r] = NoFiles /\ log[r] = ""

-----------------------------------------------------------------------------
(* C1 *)

\* The addition's first k time steps are the record's last k, and the two
\* files have no other time step in common.
PrefixOverlap(k) ==
    /\ k <= Len(time_record_array)
    /\ k <= Len(time_addition_array)
    /\ Cardinality(CommonTimes) = k
    /\ \A i \in 1..k :
        time_addition_array[i] = time_record_array[Len(time_record_array) - k + i]

\* C1: when the first k time steps of the addition (a time vector without
\* duplicates) are the last k of the record and are all the two have in
\* common, the merged time vector has len(R.time) + len(A.time) - k entries
\* and no duplicate, and that is the vector written to the record.
C1_FullPrefixOverlapElimination ==
    (Computed \/ MergeRaised) =>
        \A k \in 0..Len(time_addition_array) :
            (NoDuplicates(time_addition_array) /\ PrefixOverlap(k)) =>
                /\ Len(time_new_total_array)
                       = Len(time_record_array) + Len(time_addition_array) - k
                /\ NoDuplicates(time_new_total_array)
                /\ (pc = "return" => nc_time = time_new_total_array)

C1_Witness ==
    /\ pc = "return"
    /\ NoDuplicates(time_addition_array)
    /\ \E k \in 1..Len(time_addition_array) :
        PrefixOverlap(k) /\ k < Len(time_addition_array)

-----------------------------------------------------------------------------
(* C7 *)

\* C7: in append_era5.py, when the record and the addition hold different
\* numbers of reaches the merge ends in an error before it writes: it never
\* gets to either write, and time and Qout of the record are as they were
\* read, whatever the orientations of the two arrays.
C7_ShapeMismatchWritesNothing ==
    (script = "append_era5" /\ (pc = "compute" \/ Computed \/ MergeRaised)
        /\ LocationSizesDiffer) =>
        /\ ~Computed
        /\ nc_time = time_record_array
        /\ nc_Qout = flow_record_array
        /\ fs[region].written = {}

C7_Witness ==
    /\ script = "append_era5"
    /\ MergeRaised
    /\ LocationSizesDiffer
    /\ record_dims # addition_dims
    /\ nc_Qout = flow_record_array

-----------------------------------------------------------------------------
(* C9 *)

NotFound == {"record_not_found", "addition_not_found"}

-----------------------------------------------------------------------------
(* C10 *)

\* C10: in append_era5.py a region's record is renamed only once its merge has
\* returned with time and Qout written, its addition and m3 files are removed
\* only after that rename, and a region whose file was not found or whose
\* merge raised has nothing renamed or removed.
C10_HousekeepingAfterMerge ==
    script = "append_era5" =>
        \A r \in Regions :
            /\ fs[r].record = "renamed" =>
                /\ fs[r].written = {"time", "Qout"}
                /\ r < region \/ (r = region /\ pc = "remove")
            /\ (fs[r].addition = "removed" \/ fs[r].m3 = "removed") =>
                fs[r].record = "renamed" /\ log[r] = "appended"
            /\ (log[r] \in NotFound \/ (pc = "raised" /\ r = region)) =>
                /\ fs[r].record # "renamed"
                /\ fs[r].addition # "removed"
                /\ fs[r].m3 # "removed"

C10_Witness ==
    /\ script = "append_era5"
    /\ \E r \in Regions :
        /\ fs[r].record = "renamed"
        /\ fs[r].addition = "removed"
        /\ fs[r].m3 = "removed"

-----------------------------------------------------------------------------
(* C2 *)

\* The record's time slices followed by all of the addition's, in the
\* record's order of dimensions.
SimpleConcatenation ==
    FromTimeSlices(TimeSlices(flow_record_array, record_dims)
                       \o TimeSlices(flow_addition_array, addition_dims),
                   LocationSize(flow_record_array, record_dims), record_dims)

\* C2: when the record and the addition have no time step in common, the
\* merged time is the record's followed by the addition's, and the merged
\* Qout is the record's followed by every time slice of the addition.
C2_NoOverlapConcatenation ==
    (Computed /\ CommonTimes = {}) =>
        /\ time_new_total_array = time_record_array \o time_addition_array
        /\ flow_new_total_array = SimpleConcatenation

-----------------------------------------------------------------------------
(* C3 *)

\* C3: a merge of append_era5.py that completes leaves time on the axis the
\* record's Qout had it on, and the merged time has
\* len(record.time) + len(addition.time) - k entries, k the number of time
\* steps the two files share.
C3_ResultShape ==
    (script = "append_era5" /\ Computed) =>
        /\ Len(time_new_total_array)
               = Len(time_record_array) + Len(time_addition_array)
                     - Cardinality(CommonTimes)
        /\ TimeSize(flow_new_total_array, record_dims) = Len(time_new_total_array)
        /\ LocationSize(flow_new_total_array, record_dims)
               = LocationSize(flow_record_array, record_dims)

-----------------------------------------------------------------------------
(* C4 *)

\* C4: on a record with strictly increasing time and an addition with as many
\* reaches, a merged time that is not strictly increasing is never kept: the
\* merge raises NonMonotonicResult before it returns or writes it.
C4_MonotonicResult ==
    /\ (Computed /\ ~LocationSizesDiffer) => StrictlyIncreasing(time_new_total_array)
    /\ \A r \in Regions :
        (r = region /\ Computed /\ "time" \in fs[r].written) => StrictlyIncreasing(nc_time)

-----------------------------------------------------------------------------
(* C5 *)

\* C5: the merge comes out the same (the same time, the same Qout, or the
\* same failure) when the addition's Qout is handed over transposed.
C5_OrientationInvariance ==
    (Computed \/ MergeRaised) =>
        Merge(script, time_record_array, flow_record_array, time_addition_array,
              np_transpose(flow_addition_array))
            = [raised |-> MergeRaised, time |-> time_new_total_array,
               flow |-> flow_new_total_array]

-----------------------------------------------------------------------------
(* C6 *)

\* C6: in append_era5.py a square Qout array, of the record or of the
\* addition, ends the merge with AmbiguousOrientation: no axis is picked, no
\* array is built and nothing is written.
C6_AmbiguousOrientationFails ==
    (script = "append_era5" /\ (Computed \/ pc = "raised")
        /\ (Square(flow_record_array) \/ Square(flow_addition_array))
        /\ flow_record_array # NoArray) =>
        /\ pc = "raised"
        /\ error = "AmbiguousOrientation"
        /\ fs[region].written = {}

-----------------------------------------------------------------------------
(* C8 *)

\* C8: the record is written only once the merged time and Qout are both
\* computed and the merged time has passed the strictly-increasing check; a
\* merge that fails leaves time and Qout as they were read; and no region
\* whose merge is over has one of the two variables written without the other.
C8_NoPartialWrite ==
    /\ \A r \in Regions :
        (r = region /\ fs[r].written # {} /\ pc \in {"write_time", "write_Qout", "return"}) =>
            StrictlyIncreasing(time_new_total_array)
    /\ MergeRaised =>
        /\ fs[region].written = {}
        /\ nc_time = time_record_array
        /\ nc_Qout = flow_record_array
    /\ \A r \in Regions :
        (r < region \/ pc \in {"return", "rename", "remove", "raised", "finished"}) =>
            fs[r].written \in {{}, {"time", "Qout"}}

-----------------------------------------------------------------------------
(* C11 *)

Cells(flow) == {flow.data[i][j] : i \in 1..NRows(flow), j \in 1..NCols(flow)}

AdditionCells(flow) == {c \in Cells(flow) : c[1] = "addition"}

\* The cells of the addition's Qout at its time steps after the first k.
CellsAfter(k) ==
    {c \in Cells(flow_addition_array) : c[2] > k}

\* C11: with k the number of distinct time steps the two files share, a merge
\* that completes has dropped the first k entries of the addition's time and
\* the first k time slices of the addition's Qout, and nothing else: what it
\* appends is the rest of the time vector and every cell of the later slices.
C11_OverlapTrimming ==
    Computed =>
        LET k == Cardinality(CommonTimes)
        IN  /\ time_new_total_array
                   = time_record_array
                       \o [i \in 1..(Len(time_addition_array) - k) |->
                              time_addition_array[k + i]]
            /\ AdditionCells(flow_new_total_array) = CellsAfter(k)

-----------------------------------------------------------------------------
(* C12 *)

\* C12: a merge that completes keeps what the record held: the merged time
\* starts with the record's time, entry by entry, and the first
\* len(record.time) time slices of the merged Qout are the record's time
\* slices, unchanged.
C12_StoredDataPreserved ==
    Computed =>
        /\ Len(time_new_total_array) >= Len(time_record_array)
        /\ \A i \in 1..Len(time_record_array) :
            time_new_total_array[i] = time_record_array[i]
        /\ \A t \in 1..Len(time_record_array) :
            TimeSlice(flow_new_total_array, record_dims, t)
                = TimeSlice(flow_record_array, record_dims, t)

-----------------------------------------------------------------------------
(* C13 *)

\* The addition's time is strictly increasing and it shares with the record
\* only a prefix of its own that is the record's tail.
CleanPrefixAddition ==
    /\ StrictlyIncreasing(time_addition_array)
    /\ \E k \in 0..Len(time_addition_array) : PrefixOverlap(k)

\* C13: once such an addition has been merged into the record and written,
\* merging the same addition into the result again counts every one of its
\* time steps as a duplicate, raises nothing and gives back the same time and
\* the same Qout.
C13_ReappendIsIdempotent ==
    (pc = "return" /\ CleanPrefixAddition) =>
        /\ Cardinality(Range(nc_time) \cap Range(time_addition_array))
               = Len(time_addition_array)
        /\ Merge(script, nc_time, nc_Qout, time_addition_array, flow_addition_array)
               = [raised |-> FALSE, time |-> nc_time, flow |-> nc_Qout]

-----------------------------------------------------------------------------
(* C14 *)

\* The record of region r has been appended to, or created from the addition.
RecordUpdated(r) ==
    \/ log[r] = "appended" /\ fs[r].written = {"time", "Qout"}
    \/ log[r] = "created" /\ fs[r].record = "copied"

\* C14: in update_era5_workflow.py last_date_prev_sim.txt holds the actual end
\* date only once every region's record has been appended to or created; until
\* then, and whenever the simulation, the file lookup or the append has
\* raised, it holds the previous date.
C14_LastDateWrittenLast ==
    /\ last_date = "actual" =>
        /\ script = "update_era5_workflow"
        /\ pc \in {"finish", "finished"}
        /\ \A r \in Regions : RecordUpdated(r)
    /\ (pc = "raised" \/ pc \notin {"finish", "finished"}) => last_date = "previous"

\* The append raised for a later region after an earlier region's record was
\* written: the date file still holds the previous date.
C14_Witness ==
    /\ script = "update_era5_workflow"
    /\ pc = "raised"
    /\ error = "ValueError"
    /\ last_date = "previous"
    /\ \E r \in Regions : r < region /\ fs[r].written = {"time", "Qout"}

====
